---- MODULE Spec2Model ----
(***************************************************************************)
(* A model of src/src/schema.ts (Dongoose): a typed document layer over    *)
(* Deno KV.  One collection is modelled, declared as                       *)
(*   Dongoose({ code: <string or number> },                                *)
(*            { db, name: "users", primaryIndexes: ["code"] })             *)
(* Every record is stored once per primary index field, under the key      *)
(* [name, name_by_field, value].                                           *)
(***************************************************************************)
EXTENDS Integers, Sequences, FiniteSets, TLC

VARIABLES
  codeType,  \* the declared type of the schema field "code": "string" or "number"
  store,     \* the Deno KV database: a function from the keys that exist to their values
  now,       \* what Date.now() returns
  nextId,    \* how many identifiers crypto.randomUUID() has handed out, plus one
  call,      \* per caller: the pending asynchronous call and where it is suspended
  ret,       \* the call that returned last: its result and the store requests it issued
  log,       \* the last two write requests the store served: the operation, the
             \* primary index values of its record, and whether it was applied
  calls      \* how many calls have been started

vars == <<codeType, store, now, nextId, call, ret, log, calls>>

----------------------------------------------------------------------------
(* Bounds *)

MaxTime == 2   \* Date.now() ranges over 1..MaxTime
ListBatch == 2 \* entries one round trip of db.list() reads (scaled down)
MaxCalls == 2  \* calls started in one run

Procs == {"p1", "p2"}  \* the callers whose calls may overlap

----------------------------------------------------------------------------
(* Values.  A JavaScript value is modelled with its type: the string "1"   *)
(* and the number 1 are different values and different Deno KV key parts.  *)
(* A number is written by its decimal digits.                              *)

Str(s) == [kind |-> "string", val |-> s]
Num(s) == [kind |-> "number", val |-> s]
Null == [kind |-> "null"]
Undefined == [kind |-> "undefined"]
EmptyObject == [k \in {} |-> Null]

\* String.prototype.toString / Number.prototype.toString: always a string.
toString(v) == [kind |-> "string", val |-> v.val]

IdNames == <<"u1", "u2", "u3", "u4">>
\* crypto.randomUUID(): the n-th identifier; identifiers never repeat.
randomUUID(n) == Str(IdNames[n])

\* The identifiers a run can meet: that of the record the collection may hold
\* at the start, and one per call at most.
GeneratedIds == {randomUUID(n) : n \in 1..(MaxCalls + 1)}
SuppliedIds == {Str("x1")}         \* identifiers a caller may put in its input
IdVals == GeneratedIds \cup SuppliedIds
CodeVals(t) == IF t = "string" THEN {Str("1"), Str("2")} ELSE {Num("1"), Num("2")}

\* Values the validator rejects: a code of the other type, an id that is no UUID.
WrongCodeVals(t) == IF t = "string" THEN {Num("1")} ELSE {Str("1")}
BadIds == {Str("no-uuid")}

\* The ZodError that parse throws.
ShapeViolation == [kind |-> "ShapeViolation"]

\* { ...a, ...b }: the fields of b override those of a.
\* deepMerge(a, b) is the same on records whose fields are not objects.
Merge(a, b) ==
  [k \in DOMAIN a \cup DOMAIN b |-> IF k \in DOMAIN b THEN b[k] ELSE a[k]]

----------------------------------------------------------------------------
(* The schema *)

schemaName == "users"
primaryIndexes == <<"code">>

RECURSIVE Dedupe(_)
\* [...new Set(s)]: the first occurrence of each element, in order.
Dedupe(s) ==
  IF s = <<>> THEN <<>>
  ELSE LET front == Dedupe(SubSeq(s, 1, Len(s) - 1))
           x == s[Len(s)]
       IN IF \E i \in 1..Len(front) : front[i] = x THEN front ELSE Append(front, x)

schemaPrimaryIndexes == Dedupe(primaryIndexes \o <<"id">>)

Range(s) == {s[i] : i \in 1..Len(s)}

getKeysWithIndexes(name, index) == name \o "_by_" \o index

\* The validators: TRUE when parse(data) returns, FALSE when it throws.  A
\* z.object ignores the keys its shape does not name.  An object is a record;
\* a query is written as the sequence of its entries, in insertion order.
\* z.object({ code: <t> }).parse(data)
schemaValidationObject(t, data) ==
  "code" \in DOMAIN data /\ data.code.kind = t

\* schemaValidationObject.partial().parse(data)
schemaValidationPartialObject(t, data) ==
  "code" \in DOMAIN data => data.code.kind = t

\* schemaValidationObjectWithId.extend({ id: z.string().uuid() }).partial().parse(query)
schemaValidationPartialObjectWithId(t, query) ==
  \A i \in 1..Len(query) :
    /\ query[i].k = "code" => query[i].v.kind = t
    /\ query[i].k = "id" => query[i].v \in IdVals

----------------------------------------------------------------------------
(* Deno KV: key order, getMany, list, atomic commit *)

\* Every string that occurs in a key, in byte order.
StringsInOrder ==
  <<"1", "2", "u1", "u2", "u3", "u4", "users_by_code", "users_by_id", "x1">>
StrRank(s) == CHOOSE i \in 1..Len(StringsInOrder) : StringsInOrder[i] = s

\* Key parts are ordered by type first (string before number), then by value.
PartLess(a, b) ==
  IF a.kind # b.kind THEN a.kind = "string"
  ELSE StrRank(a.val) < StrRank(b.val)

KeyLess(k1, k2) ==
  \/ StrRank(k1[2]) < StrRank(k2[2])
  \/ k1[2] = k2[2] /\ PartLess(k1[3], k2[3])

RECURSIVE SortKeys(_)
SortKeys(S) ==
  IF S = {} THEN <<>>
  ELSE LET m == CHOOSE k \in S : \A j \in S \ {k} : KeyLess(k, j)
       IN <<m>> \o SortKeys(S \ {m})


\* db.getMany(keys): one value (or null) per key, in the order of the keys.
getMany(kv, keys) ==
  [i \in 1..Len(keys) |-> IF keys[i] \in DOMAIN kv THEN kv[keys[i]] ELSE Null]

EmptyStore == [k \in {} |-> Null]

\* The cursor of a list that has not read an entry yet.
NoCursor == <<>>

\* A list whose prefix names the id index only.
listIdIndexOnly(kv, cursor, limit) ==
  LET after == {k \in DOMAIN kv :
                  /\ k[2] = getKeysWithIndexes(schemaName, "id")
                  /\ cursor = NoCursor \/ KeyLess(cursor, k)}
      sorted == SortKeys(after)
  IN SubSeq(sorted, 1, IF Len(sorted) < limit THEN Len(sorted) ELSE limit)

\* db.list({ prefix: [schemaName] }): the keys after the cursor, in key order,
\* at most limit of them.
list(kv, cursor, limit) ==
  LET after == {k \in DOMAIN kv : cursor = NoCursor \/ KeyLess(cursor, k)}
      sorted == SortKeys(after)
  IN SubSeq(sorted, 1, IF Len(sorted) < limit THEN Len(sorted) ELSE limit)

\* A commit that is not atomic: each key is written when its own check holds.
commitPerKey(kv, tx) ==
  LET ok == \A k \in tx.checks : k \notin DOMAIN kv
      free == {k \in tx.keys : k \notin DOMAIN kv}
  IN [ok |-> ok,
      store |->
        IF tx.operation = "set"
          THEN [k \in DOMAIN kv \cup free |-> IF k \in free THEN tx.data ELSE kv[k]]
          ELSE kv]

\* transaction.commit(): every check holds and every mutation applies, or
\* nothing changes.  check({key, versionstamp: null}) holds when key is absent.
commit(kv, tx) ==
  LET ok == \A k \in tx.checks : k \notin DOMAIN kv
  IN [ok |-> ok,
      store |->
        IF ~ok THEN kv
        ELSE IF tx.operation = "set"
          THEN [k \in DOMAIN kv \cup tx.keys |->
                  IF k \in tx.keys THEN tx.data ELSE kv[k]]
          ELSE [k \in DOMAIN kv \ tx.keys |-> kv[k]]]

\* db.delete(key)
delete(kv, key) == [k \in DOMAIN kv \ {key} |-> kv[k]]

----------------------------------------------------------------------------
(* schema.ts: the helpers *)

updateTimestamps(data, isInsertion, t) ==
  IF isInsertion
    THEN Merge(data, [createdAt |-> t, updatedAt |-> t])
    ELSE Merge(data, [updatedAt |-> t])

\* performTransaction with the existence check staged for the first index only.
performTransactionCheckFirst(indexes, data, operation, t) ==
  LET stamped == updateTimestamps(data, operation = "set", t)
  IN [operation |-> operation,
      data |-> stamped,
      checks |-> {<<schemaName, getKeysWithIndexes(schemaName, indexes[1]),
                    stamped[indexes[1]]>>},
      keys |-> {<<schemaName, getKeysWithIndexes(schemaName, index),
                  toString(stamped[index])>> : index \in Range(indexes)}]

\* performTransaction with the mutation staged for the first index only.
performTransactionWriteFirst(indexes, data, operation, t) ==
  LET stamped == updateTimestamps(data, operation = "set", t)
  IN [operation |-> operation,
      data |-> stamped,
      checks |-> {<<schemaName, getKeysWithIndexes(schemaName, index),
                    stamped[index]>> : index \in Range(indexes)},
      keys |-> {<<schemaName, getKeysWithIndexes(schemaName, indexes[1]),
                  toString(stamped[indexes[1]])>>}]

\* performTransaction with every key made of the value of the first index.
performTransactionKeyOfFirst(indexes, data, operation, t) ==
  LET stamped == updateTimestamps(data, operation = "set", t)
  IN [operation |-> operation,
      data |-> stamped,
      checks |-> {<<schemaName, getKeysWithIndexes(schemaName, index),
                    stamped[index]>> : index \in Range(indexes)},
      keys |-> {<<schemaName, getKeysWithIndexes(schemaName, index),
                  toString(stamped[indexes[1]])>> : index \in Range(indexes)}]

\* performTransaction that stages no existence check.
performTransactionUnchecked(indexes, data, operation, t) ==
  LET stamped == updateTimestamps(data, operation = "set", t)
  IN [operation |-> operation,
      data |-> stamped,
      checks |-> {},
      keys |-> {<<schemaName, getKeysWithIndexes(schemaName, index),
                  toString(stamped[index])>> : index \in Range(indexes)}]

\* The atomic transaction performTransaction builds, before it is committed.
performTransaction(indexes, data, operation, t) ==
  LET stamped == updateTimestamps(data, operation = "set", t)
  IN [operation |-> operation,
      data |-> stamped,
      checks |-> {<<schemaName, getKeysWithIndexes(schemaName, index),
                    stamped[index]>> : index \in Range(indexes)},
      keys |-> {<<schemaName, getKeysWithIndexes(schemaName, index),
                  toString(stamped[index])>> : index \in Range(indexes)}]

\* findOne without the test for an empty query: getMany([]) is issued.
findOneNoGuard(kv, query) ==
  IF ~schemaValidationPartialObjectWithId(codeType, query)
    THEN [value |-> ShapeViolation, reads |-> 0]
  ELSE
  LET results == getMany(kv,
        [i \in 1..Len(query) |->
           <<schemaName, getKeysWithIndexes(schemaName, query[i].k), query[i].v>>])
      present == {i \in 1..Len(query) : results[i] # Null}
  IN [value |-> IF present = {} THEN Null
                ELSE results[CHOOSE i \in present : \A j \in present : i <= j],
      reads |-> 1]

\* findOne returning the last entry of the batch whose value is present.
findOneLastPresent(kv, query) ==
  IF ~schemaValidationPartialObjectWithId(codeType, query)
    THEN [value |-> ShapeViolation, reads |-> 0]
  ELSE IF Len(query) = 0 THEN [value |-> Null, reads |-> 0]
  ELSE LET results == getMany(kv,
             [i \in 1..Len(query) |->
                <<schemaName, getKeysWithIndexes(schemaName, query[i].k), query[i].v>>])
           present == {i \in 1..Len(query) : results[i] # Null}
       IN [value |-> IF present = {} THEN Null
                     ELSE results[CHOOSE i \in present : \A j \in present : i >= j],
           reads |-> 1]

\* findOne without the validation of its query.
findOneNoParse(kv, query) ==
  IF Len(query) = 0 THEN [value |-> Null, reads |-> 0]
  ELSE LET results == getMany(kv,
             [i \in 1..Len(query) |->
                <<schemaName, getKeysWithIndexes(schemaName, query[i].k), query[i].v>>])
           present == {i \in 1..Len(query) : results[i] # Null}
       IN [value |-> IF present = {} THEN Null
                     ELSE results[CHOOSE i \in present : \A j \in present : i <= j],
           reads |-> 1]

\* findOne: value is what it returns (or the error it throws), reads the number
\* of getMany requests.
findOne(kv, query) ==
  IF ~schemaValidationPartialObjectWithId(codeType, query)
    THEN [value |-> ShapeViolation, reads |-> 0]
  ELSE IF Len(query) = 0 THEN [value |-> Null, reads |-> 0]
  ELSE LET results == getMany(kv,
             [i \in 1..Len(query) |->
                <<schemaName, getKeysWithIndexes(schemaName, query[i].k), query[i].v>>])
           present == {i \in 1..Len(query) : results[i] # Null}
       IN [value |-> IF present = {} THEN Null
                     ELSE results[CHOOSE i \in present : \A j \in present : i <= j],
           reads |-> 1]

RECURSIVE ScanEveryField(_, _, _, _)
\* The loop of find keeping an entry only when every queried field matches.
ScanEveryField(kv, keys, query, acc) ==
  IF keys = <<>> THEN acc
  ELSE LET value == kv[Head(keys)]
           hit == \A i \in 1..Len(query) :
                    query[i].k \in DOMAIN value /\ value[query[i].k] = query[i].v
           has == \E j \in 1..Len(acc) : acc[j].id = value.id
       IN ScanEveryField(kv, Tail(keys), query,
                         IF hit /\ ~has THEN Append(acc, value) ELSE acc)

RECURSIVE Scan(_, _, _, _)
\* The loop of find over the listed entries: acc is filteredResult.
Scan(kv, keys, query, acc) ==
  IF keys = <<>> THEN acc
  ELSE LET value == kv[Head(keys)]
           hit == \E i \in 1..Len(query) :
                    query[i].k \in DOMAIN value /\ value[query[i].k] = query[i].v
           has == \E j \in 1..Len(acc) : acc[j].id = value.id
       IN Scan(kv, Tail(keys), query,
               IF hit /\ ~has THEN Append(acc, value) ELSE acc)

find(kv, query) ==
  IF ~schemaValidationPartialObjectWithId(codeType, query)
    THEN [value |-> ShapeViolation, reads |-> 0]
  ELSE IF Len(query) = 0 THEN [value |-> Null, reads |-> 0]
  ELSE [value |-> [kind |-> "list",
                   items |-> Scan(kv, list(kv, NoCursor, Cardinality(DOMAIN kv)), query, <<>>)],
        reads |-> 1]

----------------------------------------------------------------------------
(* schema.ts: what each mutating operation hands to the store *)

\* create: the transaction built from the validated input and a fresh id.
create(data, id, t) ==
  performTransaction(schemaPrimaryIndexes, Merge([id |-> id], data), "set", t)

\* updateById after its lookup returned item: null, or the transaction.
updateById(item, data, t) ==
  IF item = Null THEN Null
  ELSE performTransaction(schemaPrimaryIndexes, Merge(item, data), "set", t)

\* deleteById / deleteOne after the lookup returned item: null, or the transaction.
deleteById(item, t) ==
  IF item = Null THEN Null
  ELSE performTransaction(schemaPrimaryIndexes, item, "delete", t)

IdQuery(id) == <<[k |-> "id", v |-> id]>>

----------------------------------------------------------------------------
(* Inputs *)

\* The last two of each set fail validation (in CreateInputs: a missing code
\* and a code of the wrong type).
CreateInputs ==
  {[code |-> c] : c \in CodeVals(codeType)}
    \cup {[code |-> c, id |-> i] : c \in CodeVals(codeType), i \in SuppliedIds}
    \cup {EmptyObject}
    \cup {[code |-> c] : c \in WrongCodeVals(codeType)}

PartialInputs ==
  {EmptyObject}
    \cup {[code |-> c] : c \in CodeVals(codeType)}
    \cup {[id |-> i] : i \in SuppliedIds}
    \cup {[code |-> c] : c \in WrongCodeVals(codeType)}

\* Queries of no, one and two fields; the two-field ones in both orders.  The
\* last two fail validation.
Queries ==
  {<<>>}
    \cup {IdQuery(i) : i \in IdVals}
    \cup {<<[k |-> "code", v |-> c]>> : c \in CodeVals(codeType)}
    \cup {<<[k |-> "code", v |-> c], [k |-> "id", v |-> randomUUID(1)]>> :
            c \in CodeVals(codeType)}
    \cup {<<[k |-> "id", v |-> randomUUID(1)], [k |-> "code", v |-> c]>> :
            c \in CodeVals(codeType)}
    \cup {IdQuery(i) : i \in BadIds}
    \cup {<<[k |-> "code", v |-> c]>> : c \in WrongCodeVals(codeType)}

----------------------------------------------------------------------------
(* State *)

Idle == [pc |-> "idle"]

\* valid: every argument the call validates passed its validator.
Returned(op, valid, empty, result, reads, commits, clean) ==
  [op |-> op, valid |-> valid, empty |-> empty, result |-> result,
   reads |-> reads, commits |-> commits, clean |-> clean]

\* The call throws the validator's error before it has awaited anything; the
\* caller gets a rejected promise, or the exception itself from create.
Thrown(op) == Returned(op, FALSE, FALSE, ShapeViolation, 0, 0, TRUE)

Push(e) == IF Len(log) < 2 THEN Append(log, e) ELSE <<log[2], e>>

\* A call suspended on transaction.commit(): input is the data argument, id the
\* identifier create generated or the update looked up, item the record read.
Pending(op, tx, input, id, item, reads) ==
  [pc |-> "commit", op |-> op, tx |-> tx, input |-> input, id |-> id,
   item |-> item, reads |-> reads]

\* The database handed to Dongoose is empty, or it holds the one record an
\* earlier create({ code: 1 }) (or "1") committed.
SeedStore(t) ==
  LET code == IF t = "string" THEN Str("1") ELSE Num("1")
  IN commit(EmptyStore, create([code |-> code], randomUUID(1), 1)).store

\* Callers are interchangeable: a new call takes the first caller that has no
\* call pending.
FreeSlot(p) ==
  /\ call[p].pc = "idle"
  /\ p = "p1" \/ call["p1"].pc # "idle"

Init ==
  /\ codeType \in {"string", "number"}
  /\ \E seeded \in BOOLEAN :
       /\ store = IF seeded THEN SeedStore(codeType) ELSE EmptyStore
       /\ nextId = IF seeded THEN 2 ELSE 1
  /\ now = 1
  /\ call = [p \in Procs |-> Idle]
  /\ ret = Returned("none", TRUE, FALSE, Undefined, 0, 0, TRUE)
  /\ log = <<>>
  /\ calls = 0

\* The clock advances.  Date.now() is read only where a transaction is built,
\* so the clock is moved only where a call can build one next: a new call can
\* start, or an updateOne is about to enter updateById.
Tick ==
  /\ now < MaxTime
  /\ \/ calls < MaxCalls /\ \E p \in Procs : FreeSlot(p)
     \/ \E p \in Procs : call[p].pc = "updateById"
  /\ now' = now + 1
  /\ UNCHANGED <<codeType, store, nextId, call, ret, log, calls>>

\* create(data), up to the point where the commit is awaited.
Create(p, data) ==
  /\ FreeSlot(p)
  /\ calls < MaxCalls
  /\ calls' = calls + 1
  /\ IF ~schemaValidationObject(codeType, data)
       THEN /\ ret' = Thrown("create")
            /\ UNCHANGED <<call, nextId>>
       ELSE /\ LET id == randomUUID(nextId)
               IN call' = [call EXCEPT ![p] =
                             Pending("create", create(data, id, now), data, id, Null, 0)]
            /\ nextId' = nextId + 1
            /\ UNCHANGED ret
  /\ UNCHANGED <<codeType, store, now, log>>

\* findOne(query), findById(id) and find(query) read and return in one step.
FindOne(query) ==
  /\ calls < MaxCalls
  /\ calls' = calls + 1
  /\ LET f == findOne(store, query)
     IN ret' = Returned("findOne", schemaValidationPartialObjectWithId(codeType, query),
                        Len(query) = 0, f.value, f.reads, 0, TRUE)
  /\ UNCHANGED <<codeType, store, now, nextId, call, log>>

FindById(id) ==
  /\ calls < MaxCalls
  /\ calls' = calls + 1
  /\ LET f == findOne(store, IdQuery(id))
     IN ret' = Returned("findById", schemaValidationPartialObjectWithId(codeType, IdQuery(id)),
                        FALSE, f.value, f.reads, 0, TRUE)
  /\ UNCHANGED <<codeType, store, now, nextId, call, log>>

Find(query) ==
  /\ calls < MaxCalls
  /\ calls' = calls + 1
  /\ LET f == find(store, query)
     IN ret' = Returned("find", schemaValidationPartialObjectWithId(codeType, query),
                        Len(query) = 0, f.value, f.reads, 0, TRUE)
  /\ UNCHANGED <<codeType, store, now, nextId, call, log>>

\* The body of updateById from its lookup on: used by updateById and by updateOne.
UpdateLookup(p, op, id, data, reads) ==
  LET f == findOne(store, IdQuery(id))
  IN IF ~schemaValidationPartialObject(codeType, data)
       THEN /\ ret' = Returned(op, FALSE, FALSE, ShapeViolation, reads, 0, TRUE)
            /\ call' = [call EXCEPT ![p] = Idle]
     ELSE IF f.value = ShapeViolation
       THEN /\ ret' = Returned(op, FALSE, FALSE, ShapeViolation, reads + f.reads, 0, TRUE)
            /\ call' = [call EXCEPT ![p] = Idle]
     ELSE IF updateById(f.value, data, now) = Null
       THEN /\ ret' = Returned(op,
                              /\ schemaValidationPartialObject(codeType, data)
                              /\ schemaValidationPartialObjectWithId(codeType, IdQuery(id)),
                              FALSE, Null, reads + f.reads, 0, TRUE)
            /\ call' = [call EXCEPT ![p] = Idle]
       ELSE /\ call' = [call EXCEPT ![p] =
                         Pending(op, updateById(f.value, data, now), data, id, f.value,
                                 reads + f.reads)]
            /\ UNCHANGED ret

UpdateById(p, id, data) ==
  /\ FreeSlot(p)
  /\ calls < MaxCalls
  /\ calls' = calls + 1
  /\ UpdateLookup(p, "updateById", id, data, 0)
  /\ UNCHANGED <<codeType, store, now, nextId, log>>

\* updateOne(query, data): its own lookup, then it awaits updateById(item.id, data).
UpdateOne(p, query, data) ==
  /\ FreeSlot(p)
  /\ calls < MaxCalls
  /\ calls' = calls + 1
  /\ LET f == findOne(store, query)
     IN IF ~schemaValidationPartialObject(codeType, data) \/ f.value = ShapeViolation
          THEN /\ ret' = Thrown("updateOne")
               /\ UNCHANGED call
        ELSE IF f.value = Null
          THEN /\ ret' = Returned("updateOne",
                                 /\ schemaValidationPartialObject(codeType, data)
                                 /\ schemaValidationPartialObjectWithId(codeType, query),
                                 Len(query) = 0, Null, f.reads, 0, TRUE)
               /\ UNCHANGED call
          ELSE /\ call' = [call EXCEPT ![p] =
                            [pc |-> "updateById", op |-> "updateOne",
                             id |-> f.value.id, data |-> data, reads |-> f.reads]]
               /\ UNCHANGED ret
  /\ UNCHANGED <<codeType, store, now, nextId, log>>

UpdateOneById(p) ==
  /\ call[p].pc = "updateById"
  /\ UpdateLookup(p, "updateOne", call[p].id, call[p].data, call[p].reads)
  /\ UNCHANGED <<codeType, store, now, nextId, log, calls>>

\* deleteById / deleteOne without the test for a missing item: a transaction
\* that names no key is committed.
DeleteLookupNoGuard(p, op, query) ==
  LET f == findOne(store, query)
      tx == IF f.value = Null
              THEN [operation |-> "delete", data |-> [id |-> Null, code |-> Null],
                    checks |-> {}, keys |-> {}]
              ELSE deleteById(f.value, now)
  IN IF f.value = ShapeViolation
       THEN /\ ret' = Thrown(op)
            /\ UNCHANGED call
       ELSE /\ call' = [call EXCEPT ![p] =
                         Pending(op, tx, EmptyObject, Null, f.value, f.reads)]
            /\ UNCHANGED ret

\* The body of deleteById and deleteOne: the lookup, then the transaction.
DeleteLookup(p, op, query) ==
  LET f == findOne(store, query)
  IN IF f.value = ShapeViolation
       THEN /\ ret' = Thrown(op)
            /\ UNCHANGED call
     ELSE IF deleteById(f.value, now) = Null
       THEN /\ ret' = Returned(op, schemaValidationPartialObjectWithId(codeType, query),
                              Len(query) = 0, Null, f.reads, 0, TRUE)
            /\ UNCHANGED call
       ELSE /\ call' = [call EXCEPT ![p] =
                         Pending(op, deleteById(f.value, now), EmptyObject, f.value.id,
                                 f.value, f.reads)]
            /\ UNCHANGED ret

DeleteById(p, id) ==
  /\ FreeSlot(p)
  /\ calls < MaxCalls
  /\ calls' = calls + 1
  /\ DeleteLookup(p, "deleteById", IdQuery(id))
  /\ UNCHANGED <<codeType, store, now, nextId, log>>

DeleteOne(p, query) ==
  /\ FreeSlot(p)
  /\ calls < MaxCalls
  /\ calls' = calls + 1
  /\ DeleteLookup(p, "deleteOne", query)
  /\ UNCHANGED <<codeType, store, now, nextId, log>>

\* transaction.commit() is served: the awaited call returns its result.
Commit(p) ==
  /\ call[p].pc = "commit"
  /\ LET c == call[p]
         r == commit(store, c.tx)
     IN /\ store' = r.store
        /\ ret' = Returned(c.op, TRUE, FALSE, [kind |-> "commit", ok |-> r.ok], c.reads, 1, TRUE)
        /\ log' = Push([op |-> c.op, ok |-> r.ok,
                        vals |-> [i \in Range(schemaPrimaryIndexes) |-> c.tx.data[i]]])
        /\ call' = [q \in Procs |->
                      IF q = p THEN Idle
                      ELSE IF call[q].pc = "list" /\ r.store # store
                        THEN [call[q] EXCEPT !.clean = FALSE]
                        ELSE call[q]]
  /\ UNCHANGED <<codeType, now, nextId, calls>>

\* deleteAll(): the iterator of db.list reads the next batch, the entries after
\* the cursor; when none is left the loop ends and deleteAll returns.
ListNext(p, cursor, clean, reads) ==
  LET batch == list(store, cursor, ListBatch)
  IN IF batch = <<>>
       THEN /\ ret' = Returned("deleteAll", TRUE, FALSE, Undefined, reads + 1, 0, clean)
            /\ call' = [call EXCEPT ![p] = Idle]
       ELSE /\ call' = [call EXCEPT ![p] =
                         [pc |-> "list", op |-> "deleteAll", batch |-> batch,
                          cursor |-> cursor, clean |-> clean, reads |-> reads + 1]]
            /\ UNCHANGED ret

DeleteAll(p) ==
  /\ FreeSlot(p)
  /\ calls < MaxCalls
  /\ calls' = calls + 1
  /\ ListNext(p, NoCursor, TRUE, 0)
  /\ UNCHANGED <<codeType, store, now, nextId, log>>

\* deleteAll(): await db.delete(entry.key) for the next entry of the batch.
DeleteAllDelete(p) ==
  /\ call[p].pc = "list"
  /\ call[p].batch # <<>>
  /\ store' = delete(store, Head(call[p].batch))
  /\ call' = [call EXCEPT ![p].batch = Tail(@), ![p].cursor = Head(call[p].batch)]
  /\ log' = Push([op |-> "deleteAll", vals |-> Null, ok |-> TRUE])
  /\ UNCHANGED <<codeType, now, nextId, ret, calls>>

\* deleteAll(): the batch is used up and the iterator reads on.
DeleteAllFetch(p) ==
  /\ call[p].pc = "list"
  /\ call[p].batch = <<>>
  /\ ListNext(p, call[p].cursor, call[p].clean, call[p].reads)
  /\ UNCHANGED <<codeType, store, now, nextId, log, calls>>

Next ==
  \/ Tick
  \/ \E p \in Procs, data \in CreateInputs : Create(p, data)
  \/ \E q \in Queries : FindOne(q)
  \/ \E id \in IdVals \cup BadIds : FindById(id)
  \/ \E q \in Queries : Find(q)
  \/ \E p \in Procs, id \in IdVals \cup BadIds, data \in PartialInputs : UpdateById(p, id, data)
  \/ \E p \in Procs, q \in Queries, data \in PartialInputs : UpdateOne(p, q, data)
  \/ \E p \in Procs : UpdateOneById(p)
  \/ \E p \in Procs, id \in IdVals \cup BadIds : DeleteById(p, id)
  \/ \E p \in Procs, q \in Queries : DeleteOne(p, q)
  \/ \E p \in Procs : Commit(p)
  \/ \E p \in Procs : DeleteAll(p)
  \/ \E p \in Procs : DeleteAllDelete(p)
  \/ \E p \in Procs : DeleteAllFetch(p)

Spec == Init /\ [][Next]_vars

\* The operations that send a write request to the store, under any overlap;
\* the clock stands still and nothing else reads.
PurgeNext ==
  \/ \E p \in Procs, data \in CreateInputs : Create(p, data)
  \/ \E p \in Procs, id \in IdVals \cup BadIds, data \in PartialInputs : UpdateById(p, id, data)
  \/ \E p \in Procs, q \in Queries, data \in PartialInputs : UpdateOne(p, q, data)
  \/ \E p \in Procs : UpdateOneById(p)
  \/ \E p \in Procs, id \in IdVals \cup BadIds : DeleteById(p, id)
  \/ \E p \in Procs, q \in Queries : DeleteOne(p, q)
  \/ \E p \in Procs : Commit(p)
  \/ \E p \in Procs : DeleteAll(p)
  \/ \E p \in Procs : DeleteAllDelete(p)
  \/ \E p \in Procs : DeleteAllFetch(p)

\* The event loop resumes every awaited store request: a commit that was issued
\* is served, and a running deleteAll gets its next delete or batch.
PurgeSpec ==
  /\ Init
  /\ [][PurgeNext]_vars
  /\ \A p \in Procs : WF_vars(Commit(p))
  /\ \A p \in Procs : WF_vars(DeleteAllDelete(p))
  /\ \A p \in Procs : WF_vars(DeleteAllFetch(p))

----------------------------------------------------------------------------
(* Properties *)

\* The physical key of value v of index field F: (C, C_by_F, stringify(v)).
Key(F, v) == <<schemaName, getKeysWithIndexes(schemaName, F), toString(v)>>

Indexes == Range(schemaPrimaryIndexes)
FieldQuery(F, v) == <<[k |-> F, v |-> v]>>
LookupOps == {"updateById", "updateOne", "deleteById", "deleteOne"}

\* The queries that pass validation and name at least one field.
ScanQueries ==
  {q \in Queries : Len(q) > 0 /\ schemaValidationPartialObjectWithId(codeType, q)}

\* The step serves the commit of caller p.
CommitServed(p) == call[p].pc = "commit" /\ call'[p].pc = "idle"

\* The last two write requests served are commits of create whose records
\* share the value of a primary index field, in a collection of string values.
TwoCreatesShareValue ==
  /\ codeType = "string"
  /\ Len(log) = 2
  /\ log[1].op = "create" /\ log[2].op = "create"
  /\ \E F \in Indexes : log[1].vals[F] = log[2].vals[F]

\* C1 (as claimed): of two create calls that carry an equal value for a primary
\* index field, exactly one commits and the other gets a Conflict.
C1_ExactlyOneCommits ==
  TwoCreatesShareValue => (log[1].ok # log[2].ok)

\* C1 (amended): the two never both commit, and both get a Conflict only when
\* each of them carries a primary index value that is already stored.
C1_AtMostOneCommits ==
  TwoCreatesShareValue =>
    /\ ~(log[1].ok /\ log[2].ok)
    /\ (~log[1].ok /\ ~log[2].ok) =>
         \A i \in {1, 2} : \E F \in Indexes : Key(F, log[i].vals[F]) \in DOMAIN store

C1_Witness ==
  TwoCreatesShareValue /\ log[1].ok /\ ~log[2].ok

\* C2: whenever a physical key holds a record R, the key of every primary index
\* field of R exists and holds R.
C2_IndexConsistent ==
  \A k \in DOMAIN store :
    \A F \in Indexes :
      /\ Key(F, store[k][F]) \in DOMAIN store
      /\ store[Key(F, store[k][F])] = store[k]

\* C3: when deleteById returns for a record it found, a point lookup by id and
\* by every primary index value of the record returns absent.
C3_DeleteCompleteness ==
  [][\A p \in Procs :
       (CommitServed(p) /\ call[p].op = "deleteById") =>
         \A F \in Indexes :
           findOne(store', FieldQuery(F, call[p].item[F])).value = Null]_vars

\* C4: updateById of a record that is in the store, with no concurrent writer,
\* commits, and findById then returns the record with the supplied fields
\* overwritten.
C4_UpdateSucceeds ==
  [][\A p \in Procs :
       (/\ CommitServed(p)
        /\ call[p].op = "updateById"
        /\ findOne(store, IdQuery(call[p].id)).value = call[p].item) =>
         /\ ret'.result.ok
         /\ findOne(store', IdQuery(call[p].id)).value = call[p].tx.data]_vars

\* The last write request served is a create that committed.
CreateJustCommitted ==
  Len(log) > 0 /\ log[Len(log)].op = "create" /\ log[Len(log)].ok

\* C5: after a create committed and before any other write, a point lookup by
\* any primary index field with a string value returns the record that the
\* lookup by id returns.
C5_LookupConsistency ==
  CreateJustCommitted =>
    LET vals == log[Len(log)].vals
        byId == findOne(store, IdQuery(vals.id)).value
    IN /\ byId # Null
       /\ \A F \in Indexes :
            vals[F].kind = "string" => findOne(store, FieldQuery(F, vals[F])).value = byId

C5_Witness ==
  CreateJustCommitted /\ codeType = "string"

\* C6: a commit of which some check fails returns ok = false as a value and
\* leaves every key of the store as it was.
C6_ConflictChangesNothing ==
  [][\A p \in Procs :
       (CommitServed(p) /\ \E k \in call[p].tx.checks : k \in DOMAIN store) =>
         /\ ret'.result = [kind |-> "commit", ok |-> FALSE]
         /\ store' = store]_vars

\* A create got a Conflict although one of its keys was free.
C6_Witness ==
  /\ Len(log) > 0
  /\ log[Len(log)].op = "create" /\ ~log[Len(log)].ok
  /\ ret.op = "create" /\ ret.result = [kind |-> "commit", ok |-> FALSE]
  /\ \E F \in Indexes : Key(F, log[Len(log)].vals[F]) \notin DOMAIN store

\* C7: when create commits, findById of the identifier it generated returns a
\* record with that id, the fields of the input, and createdAt = updatedAt.
C7_CreateRoundTrip ==
  [][\A p \in Procs :
       (CommitServed(p) /\ call[p].op = "create" /\ ret'.result.ok) =>
         LET r == findOne(store', IdQuery(call[p].id)).value
         IN /\ r # Null
            /\ r.id = call[p].id
            /\ r.code = call[p].input.code
            /\ r.createdAt = r.updatedAt]_vars

\* C8: updateById, updateOne, deleteById and deleteOne issue a commit only for
\* a record their lookup found; otherwise they return null (their arguments
\* being valid), with no commit and no change of the store.
C8_NotFoundNoOp ==
  [][/\ \A p \in Procs :
          (call[p].pc # "commit" /\ call'[p].pc = "commit" /\ call'[p].op \in LookupOps)
            => call'[p].item # Null
     /\ (/\ ret' # ret
         /\ ret'.op \in LookupOps
         /\ ~ \E p \in Procs : CommitServed(p)) =>
           /\ ret'.valid => ret'.result = Null
           /\ ret'.commits = 0
           /\ store' = store
           /\ log' = log]_vars

C8_Witness ==
  /\ ret.op = "updateOne" /\ ret.result = Null /\ ret.reads = 1
  /\ DOMAIN store # {}

\* C9: a deleteAll, once started, returns; and when no commit changed the store
\* while it ran, no key of the collection is left, so find returns no match.
C9_DeleteAllPurges ==
  /\ [][\A p \in Procs :
          (call[p].pc = "list" /\ call'[p].pc = "idle" /\ call[p].clean) =>
            /\ store' = EmptyStore
            /\ \A q \in ScanQueries : find(store', q).value.items = <<>>]_vars
  /\ \A p \in Procs : (call[p].pc = "list") ~> (call[p].pc = "idle")

\* A deleteAll that ran alone has returned after deleting the keys of two records.
C9_Witness ==
  /\ ret.op = "deleteAll" /\ ret.clean /\ ret.reads >= 3
  /\ store = EmptyStore

\* C10: findOne({}) and find({}) return null and read nothing from the store.
C10_EmptyQueryRejected ==
  (ret.op \in {"findOne", "find"} /\ ret.empty) =>
    (ret.result = Null /\ ret.reads = 0)

C10_Witness ==
  ret.op = "find" /\ ret.empty /\ DOMAIN store # {}

\* Record value has at least one queried field equal to the queried value.
Matches(value, query) ==
  \E i \in 1..Len(query) :
    query[i].k \in DOMAIN value /\ value[query[i].k] = query[i].v

\* The keys of the store that hold a record matching query.
MatchingKeys(query) == {k \in DOMAIN store : Matches(store[k], query)}

\* The first key in scan order that holds a matching record with identifier id.
FirstSeen(id, query) ==
  CHOOSE k \in MatchingKeys(query) :
    /\ store[k].id = id
    /\ \A j \in MatchingKeys(query) \ {k} : store[j].id = id => KeyLess(k, j)

\* C12: for a non-empty query, find (scanning a collection that no write
\* changes meanwhile) returns stored records that match at least one queried
\* field, one for every identifier that a matching stored record carries, no two
\* with the same id, each being the copy under the first key in scan order at
\* which a matching record of that id is seen, in the order of those keys; when
\* the matching copies of every identifier are equal, these are exactly the
\* matching records of the store.
C12_FindSemantics ==
  \A q \in ScanQueries :
    LET items == find(store, q).value.items
        n == Len(items)
    IN /\ \A i \in 1..n : \E k \in MatchingKeys(q) : store[k] = items[i]
       /\ \A k \in MatchingKeys(q) : \E i \in 1..n : items[i].id = store[k].id
       /\ \A i, j \in 1..n : i < j => items[i].id # items[j].id
       /\ \A i \in 1..n : items[i] = store[FirstSeen(items[i].id, q)]
       /\ \A i, j \in 1..n :
            i < j => KeyLess(FirstSeen(items[i].id, q), FirstSeen(items[j].id, q))
       /\ (\A k, j \in MatchingKeys(q) : store[k].id = store[j].id => store[k] = store[j])
            => {items[i] : i \in 1..n} = {store[k] : k \in MatchingKeys(q)}

\* find was called with a query of two fields that belong to two different
\* stored records, and returned both.
C12_Witness ==
  /\ ret.op = "find" /\ ret.result.kind = "list" /\ Len(ret.result.items) = 2
  /\ \E q \in ScanQueries :
       /\ Len(q) = 2
       /\ find(store, q).value.items = ret.result.items
       /\ \E k, j \in DOMAIN store :
            /\ store[k].id # store[j].id
            /\ store[k][q[1].k] = q[1].v /\ store[k][q[2].k] # q[2].v
            /\ store[j][q[2].k] = q[2].v /\ store[j][q[1].k] # q[1].v

\* The valid queries of two fields, and a query with its fields in the other order.
TwoFieldQueries == {q \in ScanQueries : Len(q) = 2}
Reverse(q) == <<q[2], q[1]>>

\* The physical key findOne reads for the entry e of its query.
ReadKey(e) == <<schemaName, getKeysWithIndexes(schemaName, e.k), e.v>>

\* The keys of both fields of q are present and hold different records.
HoldDifferentRecords(q) ==
  /\ ReadKey(q[1]) \in DOMAIN store
  /\ ReadKey(q[2]) \in DOMAIN store
  /\ store[ReadKey(q[1])] # store[ReadKey(q[2])]

\* C13 (as claimed): for every findOne query of two fields, the keys of the
\* fields that are present hold one and the same record, and findOne returns
\* the same record for either order of the fields.
C13_TieBreakIndependent ==
  \A q \in TwoFieldQueries :
    /\ ~HoldDifferentRecords(q)
    /\ findOne(store, q).value = findOne(store, Reverse(q)).value

\* C13 (amended): findOne returns the record under the key of the first field,
\* in the order of the query, whose key is present, and null when none is; the
\* result depends on the order of the fields exactly when the keys of both
\* fields are present and hold different records.
C13_FirstPresentWins ==
  \A q \in TwoFieldQueries :
    /\ findOne(store, q).value =
         IF ReadKey(q[1]) \in DOMAIN store THEN store[ReadKey(q[1])]
         ELSE IF ReadKey(q[2]) \in DOMAIN store THEN store[ReadKey(q[2])]
         ELSE Null
    /\ (findOne(store, q).value # findOne(store, Reverse(q)).value)
         <=> HoldDifferentRecords(q)

\* findOne was called with the code of one stored record and the id of
\* another, and returned the record of the field it was given first.
C13_Witness ==
  /\ ret.op = "findOne"
  /\ \E q \in TwoFieldQueries :
       /\ HoldDifferentRecords(q)
       /\ ret.result = store[ReadKey(q[1])]
       /\ ret.result # findOne(store, Reverse(q)).value

\* The operations of which C11 names the validated argument.
ValidatedOps == {"create", "updateById", "updateOne", "findOne", "find", "deleteOne"}

\* C11: a call of create, updateById, updateOne, findOne, find or deleteOne
\* whose argument fails validation raises ShapeViolation with no store read and
\* no commit issued and the store unchanged; a call that awaits a commit passed
\* validation, and ShapeViolation is raised for no valid argument.
C11_ValidationPrecedesStorage ==
  [][/\ (ret' # ret /\ ret'.op \in ValidatedOps /\ ~ret'.valid) =>
          /\ ret'.result = ShapeViolation
          /\ ret'.reads = 0
          /\ ret'.commits = 0
          /\ store' = store
          /\ log' = log
          /\ call' = call
     /\ (ret' # ret /\ ret'.result = ShapeViolation) => ~ret'.valid
     /\ \A p \in Procs :
          (call'[p].pc = "commit" /\ call'[p].op = "create")
            => schemaValidationObject(codeType, call'[p].input)
     /\ \A p \in Procs :
          (call'[p].pc = "commit" /\ call'[p].op \in {"updateById", "updateOne"})
            => schemaValidationPartialObject(codeType, call'[p].input)]_vars

\* deleteOne was called with a query that fails validation, on a collection
\* that holds a record, and raised ShapeViolation.
C11_Witness ==
  /\ ret.op = "deleteOne" /\ ~ret.valid /\ ret.result = ShapeViolation
  /\ DOMAIN store # {}

UpdateOps == {"updateById", "updateOne"}

\* C14: the record an update submits to its commit carries the createdAt of
\* the record it read.
C14_CreatedAtSetOnce ==
  \A p \in Procs :
    (call[p].pc = "commit" /\ call[p].op \in UpdateOps) =>
      call[p].tx.data.createdAt = call[p].item.createdAt

\* C15: for every primary index field, the key on which a transaction stages
\* its existence check, the key it writes or deletes, and the key findOne reads
\* for the same value are one physical key.
C15_OnePhysicalKey ==
  \A p \in Procs :
    call[p].pc = "commit" =>
      /\ call[p].tx.checks = call[p].tx.keys
      /\ \A F \in Indexes :
           ReadKey([k |-> F, v |-> call[p].tx.data[F]]) = Key(F, call[p].tx.data[F])

\* C16: the record create submits carries the identifier create generated and
\* is written under the id key of that identifier.
C16_GeneratedIdUsed ==
  \A p \in Procs :
    (call[p].pc = "commit" /\ call[p].op = "create") =>
      /\ call[p].tx.data.id = call[p].id
      /\ Key("id", call[p].id) \in call[p].tx.keys

\* C17: every key (C, C_by_F, V) of the store holds a record whose field F,
\* stringified, is V; and the record under an id key that stays in the store
\* keeps its id.
C17_KeyValueCoherence ==
  /\ [](\A k \in DOMAIN store :
          \E F \in Indexes :
            /\ k[2] = getKeysWithIndexes(schemaName, F)
            /\ toString(store[k][F]) = k[3])
  /\ [][\A k \in DOMAIN store \cap DOMAIN store' :
          k[2] = getKeysWithIndexes(schemaName, "id") => store'[k].id = store[k].id]_vars

\* An update whose data carries an id committed (a deleteAll had removed the
\* code key of the record it read), and the id key of the record it read is
\* still in the store.
C17_Witness ==
  /\ Len(log) > 0
  /\ log[Len(log)].op \in UpdateOps /\ log[Len(log)].ok
  /\ log[Len(log)].vals.id \in SuppliedIds
  /\ Key("id", log[Len(log)].vals.id) \in DOMAIN store
  /\ Key("id", randomUUID(1)) \in DOMAIN store

\* C18: with string index values, a commit that succeeds names only keys that
\* were absent just before it; the value under a key that stays in the store
\* never changes; and only a delete of deleteAll removes a key.
C18_CommitTouchesNoExistingKey ==
  [][codeType = "string" =>
       /\ \A p \in Procs :
            (CommitServed(p) /\ ret'.result.ok) =>
              \A k \in call[p].tx.keys : k \notin DOMAIN store
       /\ \A k \in DOMAIN store \cap DOMAIN store' : store'[k] = store[k]
       /\ ~(DOMAIN store \subseteq DOMAIN store') =>
            \E p \in Procs :
              /\ call[p].pc = "list" /\ call[p].batch # <<>>
              /\ store' = delete(store, Head(call[p].batch))]_vars

\* A deleteById committed (a deleteAll had removed the keys of the record it
\* read) in a collection of string values.
C18_Witness ==
  /\ codeType = "string"
  /\ ret.op = "deleteById" /\ ret.result = [kind |-> "commit", ok |-> TRUE]
  /\ Len(log) > 0 /\ log[Len(log)].op = "deleteById" /\ log[Len(log)].ok

====
